---------------------------- MODULE Spec2Model ----------------------------
(***************************************************************************)
(* Model of single-well/statistics.py: residence_time (level-crossing     *)
(* detection and residence-time extraction) and signaltonoise.            *)
(*                                                                         *)
(* Reals are represented as integer multiples of 1e-4, so 1.0 is 10000,   *)
(* tol = 1e-3 is 10 and dt = 1e-3 is 10.  Products and differences of     *)
(* such multiples are exact here; binary floating-point rounding of       *)
(* dt*int(i) is not represented.                                          *)
(***************************************************************************)
EXTENDS Integers, Sequences, FiniteSets

VARIABLES x, flags, pc, i, crossing_indices, rtseries, rtdistribution, raised,
          fs, ps, f_d, idx, signal, snr_pc, snr_result

vars == <<x, flags, pc, i, crossing_indices, rtseries, rtdistribution, raised,
          fs, ps, f_d, idx, signal, snr_pc, snr_result>>

rtvars == <<x, flags, pc, i, crossing_indices, rtseries, rtdistribution, raised>>

snrvars == <<fs, ps, f_d, idx, signal, snr_pc, snr_result>>

(***************************************************************************)
(* Bounds of the model.                                                    *)
(***************************************************************************)
\* longest signal drawn exhaustively from SampleValues
MaxLen == 4

\* longest frequency array drawn for signaltonoise
MaxBins == 3

(***************************************************************************)
(* Literals of residence_time, in units of 1e-4.                           *)
(***************************************************************************)
\* tol = 1e-3
tol == 10

\* dt = 1e-3
dt == 10

\* flags=1.0, the default threshold magnitude
DefaultFlags == 10000

(***************************************************************************)
(* Inputs.                                                                 *)
(***************************************************************************)
\* sample values: at, inside and exactly on the edge of the tolerance band
\* of both thresholds, the skipped value 0, and a mid-range value
SampleValues == {-10000, -9995, -5000, 0, 5000, 9990, 9995, 10000}

ThresholdMagnitudes == {DefaultFlags, 5000}

\* [0, 0.5, 1.0, 1.0, 0.5, -1.0, -1.0, 0.2, 1.0]
ScenarioA == <<0, 5000, 10000, 10000, 5000, -10000, -10000, 2000, 10000>>

\* a constant-zero signal of length 10
ScenarioB == <<0, 0, 0, 0, 0, 0, 0, 0, 0, 0>>

\* a signal whose later crossings fall on two-digit sample indices
LongSignal == <<0, 5000, 10000, 5000, -10000, 5000, 5000, 5000, 5000, 5000,
                10000, -10000>>

SeqsUpTo(S, n) == UNION {[1..k -> S] : k \in 0..n}

Signals == SeqsUpTo(SampleValues, MaxLen) \cup {ScenarioA, ScenarioB, LongSignal}

(***************************************************************************)
(* Python and numpy primitives used by residence_time.                     *)
(***************************************************************************)
\* np.abs
Abs(v) == IF v < 0 THEN -v ELSE v

\* PyIndex with the sample before the first one read as 0 instead of
\* wrapping round to the last one
PyIndexZeroPad(a, k) == IF k < 0 THEN 0 ELSE a[k + 1]

\* a[k] for a Python sequence: 0-based, a negative k counts from the end
PyIndex(a, k) == IF k < 0 THEN a[Len(a) + k + 1] ELSE a[k + 1]

RECURSIVE IntToStr(_)
\* the decimal text numpy stores for the integer n in the string array
\* (dtype <U21, wide enough for any int64): a sequence of digits
IntToStr(n) == IF n < 10 THEN <<n>> ELSE Append(IntToStr(n \div 10), n % 10)

RECURSIVE StrToInt(_)
\* int(s) for a decimal text s
StrToInt(s) ==
    IF Len(s) = 1 THEN s[1]
    ELSE 10 * StrToInt(SubSeq(s, 1, Len(s) - 1)) + s[Len(s)]

\* Row in a string array one character wide: the index text is cut
RowTruncated(k, side) == <<SubSeq(IntToStr(k), 1, 1), side>>

\* the row [(k, side)] as np.vstack stores it: both fields become text
Row(k, side) == <<IntToStr(k), side>>

\* np.array([(0,"*")])
Sentinel == <<Row(0, "*")>>

\* crossing_indices[-1][-1]
LastSide(ci) == PyIndex(PyIndex(ci, -1), -1)

(***************************************************************************)
(* The loop body of residence_time.                                        *)
(***************************************************************************)
\* IsPositiveCrossing with a non-strict direction test
IsPositiveCrossingNonStrict(sig, k, f) ==
    /\ Abs(PyIndex(sig, k) - f) < tol
    /\ PyIndex(sig, k) - PyIndex(sig, k - 1) >= 0

\* (np.abs(x[i]-flags) < tol) and (x[i]-x[i-1] > 0)
IsPositiveCrossing(sig, k, f) ==
    /\ Abs(PyIndex(sig, k) - f) < tol
    /\ PyIndex(sig, k) - PyIndex(sig, k - 1) > 0

\* (np.abs(x[i]+flags) < tol) and (x[i]-x[i-1] < 0)
IsNegativeCrossing(sig, k, f) ==
    /\ Abs(PyIndex(sig, k) + f) < tol
    /\ PyIndex(sig, k) - PyIndex(sig, k - 1) < 0

\* AcceptPositive without the test of the last accepted side
AcceptPositiveAlways(ci, k) == Append(ci, Row(k, "+"))

\* the nested if of the positive branch
AcceptPositive(ci, k) ==
    IF Len(ci) > 1
    THEN IF LastSide(ci) = "-" THEN Append(ci, Row(k, "+")) ELSE ci
    ELSE Append(ci, Row(k, "+"))

\* AcceptNegative with the side test copied unchanged from the positive branch
AcceptNegativeCopied(ci, k) ==
    IF Len(ci) > 1
    THEN IF LastSide(ci) = "-" THEN Append(ci, Row(k, "-")) ELSE ci
    ELSE Append(ci, Row(k, "-"))

\* the nested if of the negative branch
AcceptNegative(ci, k) ==
    IF Len(ci) > 1
    THEN IF LastSide(ci) = "+" THEN Append(ci, Row(k, "-")) ELSE ci
    ELSE Append(ci, Row(k, "-"))

\* one iteration of "for i in range(steps)"
LoopBody(ci, sig, k, f) ==
    IF PyIndex(sig, k) = 0 THEN ci
    ELSE IF IsPositiveCrossing(sig, k, f) THEN AcceptPositive(ci, k)
    ELSE IF IsNegativeCrossing(sig, k, f) THEN AcceptNegative(ci, k)
    ELSE ci

(***************************************************************************)
(* The extraction after the loop.                                          *)
(***************************************************************************)
\* crossing_indices[1:]
StripSentinel(ci) == SubSeq(ci, 2, Len(ci))

\* np.array([dt*int(i) for i,_ in crossing_indices])
TimeSeries(ci) == [k \in 1..Len(ci) |-> dt * StrToInt(ci[k][1])]

\* Anchor that leaves the absolute times in place
AnchorOmitted(ts) == ts

\* rtseries - rtseries[0]
Anchor(ts) == [k \in 1..Len(ts) |-> ts[k] - PyIndex(ts, 0)]

\* Differences with the operands exchanged
DifferencesReversed(ts) == [k \in 1..(Len(ts) - 1) |-> ts[k] - ts[k + 1]]

\* rtseries[1:] - rtseries[:-1]
Differences(ts) == [k \in 1..(Len(ts) - 1) |-> ts[k + 1] - ts[k]]

(***************************************************************************)
(* residence_time as a state machine.                                      *)
(***************************************************************************)
SNRIdle ==
    /\ fs = <<>> /\ ps = <<>> /\ f_d = 0
    /\ idx = <<>> /\ signal = <<>> /\ snr_pc = "idle" /\ snr_result = 0

Init ==
    /\ x \in Signals
    /\ flags \in ThresholdMagnitudes
    /\ pc = "loop"
    /\ i = 0
    /\ crossing_indices = Sentinel
    /\ rtseries = <<>>
    /\ rtdistribution = <<>>
    /\ raised = "none"
    /\ SNRIdle

\* lines 81-82: the zero sample is skipped
SkipZero ==
    /\ pc = "loop" /\ i < Len(x)
    /\ PyIndex(x, i) = 0
    /\ crossing_indices' = LoopBody(crossing_indices, x, i, flags)
    /\ i' = i + 1
    /\ UNCHANGED <<x, flags, pc, rtseries, rtdistribution, raised>>
    /\ UNCHANGED snrvars

\* lines 83-94: the sample breaches the positive level
PositiveCrossing ==
    /\ pc = "loop" /\ i < Len(x)
    /\ PyIndex(x, i) # 0
    /\ IsPositiveCrossing(x, i, flags)
    /\ crossing_indices' = LoopBody(crossing_indices, x, i, flags)
    /\ i' = i + 1
    /\ UNCHANGED <<x, flags, pc, rtseries, rtdistribution, raised>>
    /\ UNCHANGED snrvars

\* lines 95-106: the sample breaches the negative level
NegativeCrossing ==
    /\ pc = "loop" /\ i < Len(x)
    /\ PyIndex(x, i) # 0
    /\ ~IsPositiveCrossing(x, i, flags)
    /\ IsNegativeCrossing(x, i, flags)
    /\ crossing_indices' = LoopBody(crossing_indices, x, i, flags)
    /\ i' = i + 1
    /\ UNCHANGED <<x, flags, pc, rtseries, rtdistribution, raised>>
    /\ UNCHANGED snrvars

\* neither test holds: the iteration changes nothing
NoCrossing ==
    /\ pc = "loop" /\ i < Len(x)
    /\ PyIndex(x, i) # 0
    /\ ~IsPositiveCrossing(x, i, flags)
    /\ ~IsNegativeCrossing(x, i, flags)
    /\ crossing_indices' = LoopBody(crossing_indices, x, i, flags)
    /\ i' = i + 1
    /\ UNCHANGED <<x, flags, pc, rtseries, rtdistribution, raised>>
    /\ UNCHANGED snrvars

\* lines 109-110: the loop is over; drop the sentinel, build the series
BuildSeries ==
    /\ pc = "loop" /\ i = Len(x)
    /\ crossing_indices' = StripSentinel(crossing_indices)
    /\ rtseries' = TimeSeries(crossing_indices')
    /\ pc' = "anchor"
    /\ UNCHANGED <<x, flags, i, rtdistribution, raised>>
    /\ UNCHANGED snrvars

\* line 113 on a non-empty series
AnchorSeries ==
    /\ pc = "anchor"
    /\ Len(rtseries) > 0
    /\ rtseries' = Anchor(rtseries)
    /\ pc' = "distribution"
    /\ UNCHANGED <<x, flags, i, crossing_indices, rtdistribution, raised>>
    /\ UNCHANGED snrvars

\* AnchorRaises for an anchoring that tolerates an empty series
AnchorTolerant ==
    /\ pc = "anchor"
    /\ Len(rtseries) = 0
    /\ rtseries' = rtseries
    /\ pc' = "distribution"
    /\ UNCHANGED <<x, flags, i, crossing_indices, rtdistribution, raised>>
    /\ UNCHANGED snrvars

\* line 113 on an empty series: rtseries[0] raises IndexError
AnchorRaises ==
    /\ pc = "anchor"
    /\ Len(rtseries) = 0
    /\ raised' = "IndexError"
    /\ pc' = "raised"
    /\ UNCHANGED <<x, flags, i, crossing_indices, rtseries, rtdistribution>>
    /\ UNCHANGED snrvars

\* lines 116-119: the distribution, then the return
ReturnResult ==
    /\ pc = "distribution"
    /\ rtdistribution' = Differences(rtseries)
    /\ pc' = "returned"
    /\ UNCHANGED <<x, flags, i, crossing_indices, rtseries, raised>>
    /\ UNCHANGED snrvars

Next ==
    \/ SkipZero
    \/ PositiveCrossing
    \/ NegativeCrossing
    \/ NoCrossing
    \/ BuildSeries
    \/ AnchorSeries
    \/ AnchorRaises
    \/ ReturnResult

Spec == Init /\ [][Next]_vars

(***************************************************************************)
(* signaltonoise as a state machine.                                       *)
(***************************************************************************)
\* frequency bins, in units of the bin spacing
Frequencies == -2..2

\* spectral powers, in arbitrary units
Powers == {1, 4}

\* ascending frequency arrays of 2..MaxBins bins, as fourier_spectrum sorts them
FrequencyArrays ==
    {f \in SeqsUpTo(Frequencies, MaxBins) :
        Len(f) >= 2 /\ \A k \in 1..(Len(f) - 1) : f[k] < f[k + 1]}

RECURSIVE Matches(_, _, _)
\* the 0-based indices k < n with a[k] == v, ascending
Matches(a, v, n) ==
    IF n = 0 THEN <<>>
    ELSE IF a[n] = v THEN Append(Matches(a, v, n - 1), n - 1)
    ELSE Matches(a, v, n - 1)

\* np.where(fs==f_d): a tuple holding one array, the matching indices
Where(a, v) == <<Matches(a, v, Len(a))>>

\* ps[idx] for the tuple idx: the powers at the matching indices
Take(a, t) == [k \in 1..Len(t[1]) |-> a[t[1][k] + 1]]

\* idx==n for the tuple idx and the integer n: Python compares a tuple with
\* an integer as unequal, whatever the tuple holds
TupleEqualsInt(t, n) == FALSE

InitSNR ==
    /\ fs \in FrequencyArrays
    /\ ps \in [1..Len(fs) -> Powers]
    /\ f_d \in Frequencies
    /\ idx = <<>>
    /\ signal = <<>>
    /\ snr_pc = "locate"
    /\ snr_result = 0
    /\ x = <<>> /\ flags = DefaultFlags /\ pc = "idle" /\ i = 0
    /\ crossing_indices = Sentinel
    /\ rtseries = <<>> /\ rtdistribution = <<>>
    /\ raised = "none"

\* lines 42-44: locate the frequency and read the spectrum there
Locate ==
    /\ snr_pc = "locate"
    /\ idx' = Where(fs, f_d)
    /\ signal' = Take(ps, idx')
    /\ snr_pc' = "edges"
    /\ UNCHANGED <<fs, ps, f_d, snr_result>>
    /\ UNCHANGED rtvars

\* lines 48-56: the two edge tests, then the noise estimate, where idx-1
\* (a tuple minus an integer) raises TypeError
EdgeTestsAndNoise ==
    /\ snr_pc = "edges"
    /\ IF TupleEqualsInt(idx, 0) \/ TupleEqualsInt(idx, Len(fs))
       THEN /\ snr_result' = 0
            /\ snr_pc' = "returned"
            /\ raised' = raised
       ELSE /\ raised' = "TypeError"
            /\ snr_pc' = "raised"
            /\ snr_result' = snr_result
    /\ UNCHANGED <<fs, ps, f_d, idx, signal>>
    /\ UNCHANGED <<x, flags, pc, i, crossing_indices, rtseries, rtdistribution>>

NextSNR ==
    \/ Locate
    \/ EdgeTestsAndNoise

SpecSNR == InitSNR /\ [][NextSNR]_vars

(***************************************************************************)
(* Properties of residence_time.                                           *)
(***************************************************************************)
\* the accepted events: the rows after the (0,"*") sentinel
Events == IF pc = "loop" THEN StripSentinel(crossing_indices) ELSE crossing_indices

EventIndex(e) == StrToInt(e[1])

EventSide(e) == e[2]

Terminated == pc \in {"raised", "returned"}

\* C1: at every point of the scan and after it, any two adjacent accepted
\* events have different sides, one "+" and one "-".
C1_Alternation ==
    \A k \in 1..(Len(Events) - 1) :
        {EventSide(Events[k]), EventSide(Events[k + 1])} = {"+", "-"}

C1_Witness == pc = "loop" /\ Len(Events) >= 4

\* C2: no accepted crossing event has sample index 0 (sample 0 is never
\* compared against the last sample).
C2_IndexZeroExcluded == \A k \in 1..Len(Events) : EventIndex(Events[k]) # 0

\* C3 as stated: scenario A yields exactly two events, Positive at 2 or 3 then
\* Negative at 5 or 6, and one distribution entry of dt times their index gap.
C3_ScenarioATwoCrossings ==
    (Terminated /\ x = ScenarioA /\ flags = DefaultFlags) =>
        /\ pc = "returned"
        /\ Len(crossing_indices) = 2
        /\ EventSide(crossing_indices[1]) = "+"
        /\ EventIndex(crossing_indices[1]) \in {2, 3}
        /\ EventSide(crossing_indices[2]) = "-"
        /\ EventIndex(crossing_indices[2]) \in {5, 6}
        /\ Len(rtdistribution) = 1
        /\ rtdistribution[1] =
             dt * (EventIndex(crossing_indices[2]) - EventIndex(crossing_indices[1]))

\* C3 amended: scenario A yields exactly three events, Positive at 2, Negative
\* at 5 and Positive at 8 (the closing 1.0 rises from 0.2), the time series
\* 0, 3*dt, 6*dt and a distribution of two entries, each 3*dt.
C3_ScenarioAThreeCrossings ==
    (Terminated /\ x = ScenarioA /\ flags = DefaultFlags) =>
        /\ pc = "returned"
        /\ Len(crossing_indices) = 3
        /\ <<EventIndex(crossing_indices[1]), EventSide(crossing_indices[1])>> = <<2, "+">>
        /\ <<EventIndex(crossing_indices[2]), EventSide(crossing_indices[2])>> = <<5, "-">>
        /\ <<EventIndex(crossing_indices[3]), EventSide(crossing_indices[3])>> = <<8, "+">>
        /\ rtseries = <<0, 3 * dt, 6 * dt>>
        /\ rtdistribution = <<3 * dt, 3 * dt>>

C3_Witness == pc = "returned" /\ x = ScenarioA /\ flags = DefaultFlags

\* no sample of the signal lies within tol of +flags or -flags
NoSampleNearThreshold ==
    \A k \in 1..Len(x) : Abs(x[k] - flags) >= tol /\ Abs(x[k] + flags) >= tol

\* C4: a signal with no sample near either threshold gives an empty crossing
\* sequence, and an empty crossing sequence is never turned into a returned
\* time series or distribution: the call ends by raising.
C4_EmptyCrossingRejected ==
    /\ (pc # "loop" /\ NoSampleNearThreshold) => Len(crossing_indices) = 0
    /\ (pc # "loop" /\ Len(crossing_indices) = 0) =>
           /\ pc \in {"anchor", "raised"}
           /\ rtseries = <<>> /\ rtdistribution = <<>>
           /\ pc = "anchor" => ENABLED AnchorRaises
           /\ pc = "raised" => raised = "IndexError"

C4_Witness == pc = "raised" /\ x = ScenarioB /\ Len(crossing_indices) = 0

\* C6: the sample indices of the accepted events are strictly increasing and
\* each lies in 0..len(x)-1.
C6_Chronological ==
    /\ \A k \in 1..Len(Events) : EventIndex(Events[k]) \in 0..(Len(x) - 1)
    /\ \A k \in 1..(Len(Events) - 1) :
           EventIndex(Events[k]) < EventIndex(Events[k + 1])

C6_Witness ==
    /\ pc = "returned" /\ Len(Events) >= 4
    /\ EventIndex(Events[3]) >= 10

\* C7: when at least one crossing was accepted the call returns, the time
\* series has one entry per event, entry k is dt*(index_k - index_0), and the
\* first entry is 0.
C7_AnchoredSeries ==
    (Terminated /\ Len(crossing_indices) >= 1) =>
        /\ pc = "returned"
        /\ Len(rtseries) = Len(crossing_indices)
        /\ \A k \in 1..Len(rtseries) :
               rtseries[k] =
                 dt * (EventIndex(crossing_indices[k]) - EventIndex(crossing_indices[1]))
        /\ rtseries[1] = 0

C7_Witness ==
    /\ pc = "returned" /\ Len(rtseries) >= 3
    /\ EventIndex(crossing_indices[1]) > 0

\* C8: when at least one crossing was accepted the distribution has
\* len(timeSeries)-1 entries (none, without error, for a single crossing),
\* entry k is timeSeries[k+1]-timeSeries[k], and no entry is negative.
C8_Distribution ==
    (Terminated /\ Len(crossing_indices) >= 1) =>
        /\ pc = "returned"
        /\ Len(rtdistribution) = Len(rtseries) - 1
        /\ \A k \in 1..Len(rtdistribution) :
               /\ rtdistribution[k] = rtseries[k + 1] - rtseries[k]
               /\ rtdistribution[k] >= 0

C8_Witness == pc = "returned" /\ Len(rtdistribution) >= 2

\* the sample before sample k as the scan reads it (x[k-1] in the source's
\* indexing, which for k = 0 is the last sample)
Previous(k) == IF k = 0 THEN x[Len(x)] ELSE x[k]

PositiveCandidate(k) ==
    x[k + 1] # 0 /\ Abs(x[k + 1] - flags) < tol /\ x[k + 1] > Previous(k)

NegativeCandidate(k) ==
    x[k + 1] # 0 /\ Abs(x[k + 1] + flags) < tol /\ x[k + 1] < Previous(k)

RECURSIVE Greedy(_)
\* the greedy filter of the candidates among samples 0..n-1, as a sequence
\* of <<index, side>>
Greedy(n) ==
    IF n = 0 THEN <<>>
    ELSE LET acc == Greedy(n - 1)
             k == n - 1
             side == IF PositiveCandidate(k) THEN "+" ELSE "-"
         IN IF ~(PositiveCandidate(k) \/ NegativeCandidate(k)) THEN acc
            ELSE IF Len(acc) = 0 \/ acc[Len(acc)][2] # side
                 THEN Append(acc, <<k, side>>)
                 ELSE acc

\* C9: after scanning samples 0..i-1 the accepted events are exactly the
\* greedy filter of the candidate stream: a candidate is appended iff no
\* event was accepted yet or the last one has the opposite side, and nothing
\* else is appended or dropped.
C9_GreedyFilter ==
    /\ Len(Events) = Len(Greedy(i))
    /\ \A k \in 1..Len(Events) :
           <<EventIndex(Events[k]), EventSide(Events[k])>> = Greedy(i)[k]

C9_Witness ==
    /\ pc = "loop" /\ i = Len(x) /\ Len(Events) >= 2
    /\ \E k \in 0..(Len(x) - 1) :
           /\ PositiveCandidate(k) \/ NegativeCandidate(k)
           /\ \A n \in 1..Len(Events) : EventIndex(Events[n]) # k

\* C10 as stated: a signal of fewer than 2 samples, or exactly one accepted
\* crossing, ends in an error and never in a returned time series.
C10_FailFast ==
    (Terminated /\ (Len(x) < 2 \/ Len(crossing_indices) = 1)) => pc = "raised"

\* C10 amended: a signal of fewer than 2 samples, or one with no accepted
\* crossing, ends in IndexError with nothing returned; exactly one accepted
\* crossing returns the time series [0] and an empty distribution.
C10_FailFastOnEmpty ==
    /\ (pc # "loop" /\ Len(x) < 2) => Len(crossing_indices) = 0
    /\ (Terminated /\ (Len(x) < 2 \/ Len(crossing_indices) = 0)) =>
           pc = "raised" /\ raised = "IndexError"
    /\ (Terminated /\ Len(crossing_indices) = 1) =>
           pc = "returned" /\ rtseries = <<0>> /\ rtdistribution = <<>>

C10_Witness ==
    /\ pc = "raised" /\ Len(x) = 1
    /\ Abs(x[1] - flags) < tol

(***************************************************************************)
(* Properties of signaltonoise.                                            *)
(***************************************************************************)
\* C5: when f_d is the first or the last entry of fs, signaltonoise returns
\* exactly 0.
C5_EdgeReturnsZero ==
    (snr_pc \in {"returned", "raised"} /\ (f_d = fs[1] \/ f_d = fs[Len(fs)])) =>
        snr_pc = "returned" /\ snr_result = 0

=============================================================================
